---------------------------- MODULE Spec2Model ----------------------------
(***************************************************************************)
(* Buffer pool manager (buffer_pool_manager.cpp) over the LRU replacer     *)
(* (lru_replacer.cpp).  Every public operation holds latch_ for its whole  *)
(* body, so each operation is one atomic action.                           *)
(* The LRU and CLOCK replacers (clock_replacer.cpp) are also driven on     *)
(* their own, and the mutexes latch_ and lock_ are followed step by step   *)
(* for concurrent callers.                                                 *)
(***************************************************************************)
EXTENDS Integers, Sequences, FiniteSets

\* ------------------------------------------------------------- bounds
PoolSize == 2      \* pool_size_: number of frames
NumPages == 3      \* page ids the page store can allocate: 0 .. NumPages-1
MaxHeld  == 2      \* hand-outs that cooperating callers keep outstanding, in total
MaxByte  == 1      \* payload values 0 .. MaxByte; 0 is zeroed memory
MaxUnderflow == 1  \* pin_count_ is followed down to -MaxUnderflow
NumIds   == 3      \* frame ids a replacer driven on its own is called with
MaxOps   == 5      \* calls on a replacer driven on its own that are written down
NumThreads == 2    \* concurrent callers

INVALID_PAGE_ID == -1
NoFrame == -1

Frames   == 0 .. (PoolSize - 1)
PageIds  == 0 .. (NumPages - 1)
Payloads == 0 .. MaxByte
Ids      == 0 .. (NumIds - 1)
Threads  == 1 .. NumThreads

VARIABLES
  page_id_,      \* pages_[f].page_id_
  pin_count_,    \* pages_[f].pin_count_
  is_dirty_,     \* pages_[f].is_dirty_
  data_,         \* pages_[f].data_ (the payload)
  page_table_,   \* page id -> frame id
  free_list_,    \* sequence of frame ids, front first
  frame_list_,   \* LRUReplacer::frame_list_, front first
  iter_map_,     \* LRUReplacer::iter_map_ (its key set)
  disk,          \* page store: page id -> payload
  next_page_id,  \* page store: next id AllocatePage returns
  held,          \* callers: hand-outs of a page not yet given back by Unpin
  rt,            \* callers: one caller's NewPage / write / Unpin / Fetch round trip
  last,          \* the operation that just returned, its result and its page-store calls
  kind,          \* which Replacer is driven on its own: "lru" or "clock"
  ref_map_,      \* ClockReplacer::ref_map_
  clock_hand_,   \* ClockReplacer::clock_hand_: the frame id it points at, NoFrame for end()
  order,         \* replacer callers: evictable frames, oldest insertion first
  rec,           \* replacer callers: whether this run writes its calls down
  hist,          \* replacer callers: the calls made so far and what they returned
  out,           \* the replacer call that just returned
  pc,            \* thread -> where it is in its operation
  bop,           \* thread -> the buffer pool operation it is in, "none" if none
  rop,           \* thread -> the replacer operation it is in, "none" if none
  latch_,        \* BufferPoolManager::latch_: the thread that owns it, 0 if free
  lock_          \* the replacer's lock_: the thread that owns it, 0 if free

bpm  == <<page_id_, pin_count_, is_dirty_, data_, page_table_, free_list_,
          frame_list_, iter_map_>>
vars == <<page_id_, pin_count_, is_dirty_, data_, page_table_, free_list_,
          frame_list_, iter_map_, disk, next_page_id, held, rt, last,
          kind, ref_map_, clock_hand_, order, rec, hist, out, pc, bop, rop, latch_,
          lock_>>

\* What the buffer pool's operations leave alone, and what the replacer's calls do.
pool == <<page_id_, pin_count_, is_dirty_, data_, page_table_, free_list_,
          disk, next_page_id, held, rt, last>>
solo == <<kind, ref_map_, clock_hand_, order, rec, hist, out>>
thr  == <<pc, bop, rop, latch_, lock_>>

\* ------------------------------------------------------------- helpers
Range(s) == {s[i] : i \in DOMAIN s}

Remove(s, x) == SelectSeq(s, LAMBDA y : y # x)

Resident == {page_table_[p] : p \in DOMAIN page_table_}

MapPut(m, k, v) == [x \in (DOMAIN m) \cup {k} |-> IF x = k THEN v ELSE m[x]]

MapErase(m, k) == [x \in (DOMAIN m) \ {k} |-> m[x]]

Result(op, p, ok, f, calls) ==
  [op |-> op, page |-> p, ok |-> ok, frame |-> f, calls |-> calls]

\* ------------------------------------------------------------- page store and Page
\* DiskManager: a page reads back as it was last written; ids are handed out in order.
ReadPage(d, page_id) == d[page_id]

WritePage(d, page_id, bytes) ==
  IF page_id \in DOMAIN d THEN [d EXCEPT ![page_id] = bytes] ELSE d

AllocatePage == next_page_id

\* Page::ResetMemory zeroes the payload of frame f.
ResetMemory(d, f) == [d EXCEPT ![f] = 0]

\* ------------------------------------------------------------- LRU replacer
\* A replacer state is [list |-> sequence, map |-> set of keys].
Replacer == [list |-> frame_list_, map |-> iter_map_]

\* Victim that pops the list but leaves the frame id in iter_map_.
LRUVictim_KeepsKey(r) ==
  IF r.list = <<>>
    THEN [ok |-> FALSE, frame |-> NoFrame, r |-> r]
    ELSE [ok |-> TRUE, frame |-> r.list[Len(r.list)],
          r |-> [list |-> SubSeq(r.list, 1, Len(r.list) - 1), map |-> r.map]]

LRUVictim(r) ==
  IF r.list = <<>>
    THEN [ok |-> FALSE, frame |-> NoFrame, r |-> r]
    ELSE LET last_id == r.list[Len(r.list)]
         IN  [ok |-> TRUE, frame |-> last_id,
              r |-> [list |-> SubSeq(r.list, 1, Len(r.list) - 1),
                     map  |-> r.map \ {last_id}]]

LRUPin(r, f) ==
  IF f \notin r.map
    THEN r
    ELSE [list |-> Remove(r.list, f), map |-> r.map \ {f}]

\* Unpin that moves a frame already present to the front of the list.
LRUUnpin_Refreshes(r, f) ==
  [list |-> <<f>> \o Remove(r.list, f), map |-> r.map \cup {f}]

LRUUnpin(r, f) ==
  IF f \in r.map
    THEN r
    ELSE [list |-> <<f>> \o r.list, map |-> r.map \cup {f}]

LRUSize(r) == Len(r.list)

\* ------------------------------------------------------------- CLOCK replacer
\* A replacer state is [list |-> sequence, ref |-> frame id -> bit, map |-> set of
\* keys, hand |-> the frame id clock_hand_ points at, NoFrame for end()].
Clock == [list |-> frame_list_, ref |-> ref_map_, map |-> iter_map_,
          hand |-> clock_hand_]

\* The position of frame id f in the list.
Index(list, f) == CHOOSE i \in DOMAIN list : list[i] = f

\* ++ on an iterator that points at f: the next entry, end() after the last one.
Advance(list, f) ==
  IF Index(list, f) = Len(list) THEN NoFrame ELSE list[Index(list, f) + 1]

\* Iterations of Victim's loop the model follows before it gives up.
MaxScan == 3 * NumIds

\* PinThread that sends the hand back to end() instead of on to the next entry.
ClockPinThread_ResetsHand(c, frame_id) ==
  IF frame_id \notin c.map
    THEN c
    ELSE [list |-> Remove(c.list, frame_id),
          ref  |-> MapErase(c.ref, frame_id),
          map  |-> c.map \ {frame_id},
          hand |-> IF c.hand = frame_id THEN NoFrame ELSE c.hand]

ClockPinThread(c, frame_id) ==
  IF frame_id \notin c.map
    THEN c
    ELSE [list |-> Remove(c.list, frame_id),
          ref  |-> MapErase(c.ref, frame_id),
          map  |-> c.map \ {frame_id},
          hand |-> IF c.hand = frame_id THEN Advance(c.list, frame_id) ELSE c.hand]

\* The loop of Victim without ref_map_[f_id] = false.
RECURSIVE ClockLoop_KeepsBit(_, _, _)
ClockLoop_KeepsBit(c, scan, fuel) ==
  IF fuel = 0
    THEN [ok |-> FALSE, frame |-> NoFrame, c |-> c, scan |-> scan, done |-> FALSE]
    ELSE LET f_id == IF c.hand = NoFrame THEN Head(c.list) ELSE c.hand
             bit  == IF f_id \in DOMAIN c.ref THEN c.ref[f_id] ELSE FALSE
         IN  IF ~bit
               THEN [ok |-> TRUE, frame |-> f_id,
                     c  |-> ClockPinThread([c EXCEPT !.hand = f_id], f_id),
                     scan |-> Append(scan, f_id), done |-> TRUE]
               ELSE ClockLoop_KeepsBit([c EXCEPT !.hand = Advance(c.list, f_id)],
                                       Append(scan, f_id), fuel - 1)

\* The while (true) loop of Victim; scan lists the entries the hand has looked at.
RECURSIVE ClockLoop(_, _, _)
ClockLoop(c, scan, fuel) ==
  IF fuel = 0
    THEN [ok |-> FALSE, frame |-> NoFrame, c |-> c, scan |-> scan, done |-> FALSE]
    ELSE LET f_id == IF c.hand = NoFrame THEN Head(c.list) ELSE c.hand
             bit  == IF f_id \in DOMAIN c.ref THEN c.ref[f_id] ELSE FALSE
         IN  IF ~bit
               THEN [ok |-> TRUE, frame |-> f_id,
                     c  |-> ClockPinThread([c EXCEPT !.hand = f_id], f_id),
                     scan |-> Append(scan, f_id), done |-> TRUE]
               ELSE ClockLoop([c EXCEPT !.ref = MapPut(c.ref, f_id, FALSE),
                                        !.hand = Advance(c.list, f_id)],
                              Append(scan, f_id), fuel - 1)

ClockVictim(c) ==
  IF c.list = <<>>
    THEN [ok |-> FALSE, frame |-> NoFrame, c |-> c, scan |-> <<>>, done |-> TRUE]
    ELSE ClockLoop(c, <<>>, MaxScan)

ClockPin(c, frame_id) == ClockPinThread(c, frame_id)

ClockUnpin(c, frame_id) ==
  IF frame_id \in c.map
    THEN [c EXCEPT !.ref = MapPut(c.ref, frame_id, TRUE)]
    ELSE [list |-> Append(c.list, frame_id),
          ref  |-> MapPut(c.ref, frame_id, TRUE),
          map  |-> c.map \cup {frame_id},
          hand |-> c.hand]

ClockSize(c) == Len(c.list)


\* ------------------------------------------------------------- callers' bookkeeping
Idle == [phase |-> "idle", page |-> INVALID_PAGE_ID, B |-> 0]

Done == [phase |-> "done", page |-> INVALID_PAGE_ID, B |-> 0]

Tracking == rt.phase \in {"new", "written", "unpinned"}

\* The round trip of one caller on rt.page: NewPage, write B, Unpin(dirty), Fetch.
\* An operation of another caller on rt.page ends the tracking.
TrackOther(p) ==
  IF rt.phase = "fetched" \/ (Tracking /\ p = rt.page) THEN Done ELSE rt

TrackAll ==
  IF rt.phase = "fetched" \/ Tracking THEN Done ELSE rt

TrackWrite(p, b) ==
  IF rt.phase = "new" /\ p = rt.page
    THEN [phase |-> "written", page |-> p, B |-> b]
    ELSE TrackOther(p)

TrackUnpin(p, is_dirty) ==
  IF rt.phase = "written" /\ p = rt.page /\ is_dirty
    THEN [rt EXCEPT !.phase = "unpinned"]
    ELSE TrackOther(p)

TrackFetch(p, ok) ==
  IF rt.phase = "unpinned" /\ p = rt.page /\ ok
    THEN [rt EXCEPT !.phase = "fetched"]
    ELSE TrackOther(p)

\* ------------------------------------------------------------- buffer pool manager
AllPagesPinned == \A f \in Frames : pin_count_[f] > 0

\* PickVictimFrame with the victim's page-table entry left in place.
PickVictimFrame_KeepsEntry ==
  IF free_list_ # <<>>
    THEN [frame |-> Head(free_list_), free |-> Tail(free_list_), r |-> Replacer,
          pt |-> page_table_, disk |-> disk, calls |-> {}]
    ELSE LET v == LRUVictim(Replacer)
         IN  [frame |-> v.frame, free |-> free_list_, r |-> v.r,
              pt |-> page_table_, disk |-> disk, calls |-> {}]

\* PickVictimFrame that asks the replacer before it looks at the free list.
PickVictimFrame_ReplacerFirst ==
  LET v == LRUVictim(Replacer)
  IN  IF v.ok
        THEN LET page_id == page_id_[v.frame]
             IN  [frame |-> v.frame, free |-> free_list_, r |-> v.r,
                  pt    |-> MapErase(page_table_, page_id),
                  disk  |-> IF is_dirty_[v.frame]
                              THEN WritePage(disk, page_id, data_[v.frame])
                              ELSE disk,
                  calls |-> IF is_dirty_[v.frame]
                              THEN {<<"WritePage", page_id>>}
                              ELSE {}]
        ELSE IF free_list_ # <<>>
               THEN [frame |-> Head(free_list_), free |-> Tail(free_list_),
                     r |-> Replacer, pt |-> page_table_, disk |-> disk, calls |-> {}]
               ELSE [frame |-> NoFrame, free |-> free_list_, r |-> Replacer,
                     pt |-> page_table_, disk |-> disk, calls |-> {}]

\* The frame picked (NoFrame when there is none) and the state it leaves.
PickVictimFrame ==
  IF free_list_ # <<>>
    THEN [frame |-> Head(free_list_), free |-> Tail(free_list_), r |-> Replacer,
          pt |-> page_table_, disk |-> disk, calls |-> {}]
    ELSE LET v == LRUVictim(Replacer)
         IN  IF ~v.ok
               THEN [frame |-> NoFrame, free |-> free_list_, r |-> v.r,
                     pt |-> page_table_, disk |-> disk, calls |-> {}]
               ELSE LET page_id == page_id_[v.frame]
                    IN  [frame |-> v.frame, free |-> free_list_, r |-> v.r,
                         pt    |-> MapErase(page_table_, page_id),
                         disk  |-> IF is_dirty_[v.frame]
                                     THEN WritePage(disk, page_id, data_[v.frame])
                                     ELSE disk,
                         calls |-> IF is_dirty_[v.frame]
                                     THEN {<<"WritePage", page_id>>}
                                     ELSE {}]

FetchPageImpl(page_id) ==
  IF page_id \in DOMAIN page_table_
    THEN LET f == page_table_[page_id]
             r == IF pin_count_[f] > 0 THEN Replacer ELSE LRUPin(Replacer, f)
         IN  /\ frame_list_' = r.list
             /\ iter_map_' = r.map
             /\ last' = Result("Fetch", page_id, TRUE, f, {})
             /\ UNCHANGED <<page_id_, pin_count_, is_dirty_, data_, page_table_,
                            free_list_, disk, next_page_id>>
    ELSE LET v == PickVictimFrame
         IN  IF v.frame = NoFrame
               THEN /\ last' = Result("Fetch", page_id, FALSE, NoFrame, {})
                    /\ UNCHANGED <<bpm, disk, next_page_id>>
               ELSE /\ free_list_' = v.free
                    /\ frame_list_' = v.r.list
                    /\ iter_map_' = v.r.map
                    /\ page_table_' = MapPut(v.pt, page_id, v.frame)
                    /\ page_id_' = [page_id_ EXCEPT ![v.frame] = page_id]
                    /\ pin_count_' = [pin_count_ EXCEPT ![v.frame] = 1]
                    /\ is_dirty_' = [is_dirty_ EXCEPT ![v.frame] = FALSE]
                    /\ data_' = [ResetMemory(data_, v.frame) EXCEPT ![v.frame] = ReadPage(v.disk, page_id)]
                    /\ disk' = v.disk
                    /\ last' = Result("Fetch", page_id, TRUE, v.frame,
                                      v.calls \cup {<<"ReadPage", page_id>>})
                    /\ UNCHANGED next_page_id

UnpinPageImpl(page_id, is_dirty) ==
  IF page_id \notin DOMAIN page_table_
    THEN /\ last' = Result("Unpin", page_id, FALSE, NoFrame, {})
         /\ UNCHANGED <<bpm, disk, next_page_id>>
    ELSE LET f == page_table_[page_id]
             r == IF pin_count_[f] - 1 <= 0 THEN LRUUnpin(Replacer, f) ELSE Replacer
         IN  /\ pin_count_' = [pin_count_ EXCEPT ![f] = @ - 1]
             /\ frame_list_' = r.list
             /\ iter_map_' = r.map
             /\ is_dirty_' = [is_dirty_ EXCEPT ![f] = @ \/ is_dirty]
             /\ last' = Result("Unpin", page_id, TRUE, f, {})
             /\ UNCHANGED <<page_id_, data_, page_table_, free_list_, disk,
                            next_page_id>>

\* FlushPageImpl that writes the page but leaves is_dirty_ set.
FlushPageImpl_KeepsDirty(page_id) ==
  IF page_id \notin DOMAIN page_table_
    THEN /\ last' = Result("Flush", page_id, FALSE, NoFrame, {})
         /\ UNCHANGED <<bpm, disk, next_page_id>>
    ELSE LET f == page_table_[page_id]
         IN  /\ disk' = WritePage(disk, page_id, data_[f])
             /\ last' = Result("Flush", page_id, TRUE, f, {<<"WritePage", page_id>>})
             /\ UNCHANGED <<bpm, next_page_id>>

FlushPageImpl(page_id) ==
  IF page_id \notin DOMAIN page_table_
    THEN /\ last' = Result("Flush", page_id, FALSE, NoFrame, {})
         /\ UNCHANGED <<bpm, disk, next_page_id>>
    ELSE LET f == page_table_[page_id]
         IN  /\ disk' = WritePage(disk, page_id, data_[f])
             /\ is_dirty_' = [is_dirty_ EXCEPT ![f] = FALSE]
             /\ last' = Result("Flush", page_id, TRUE, f, {<<"WritePage", page_id>>})
             /\ UNCHANGED <<page_id_, pin_count_, data_, page_table_, free_list_,
                            frame_list_, iter_map_, next_page_id>>

NewPageImpl ==
  IF AllPagesPinned
    THEN /\ last' = Result("NewPage", INVALID_PAGE_ID, FALSE, NoFrame, {})
         /\ UNCHANGED <<bpm, disk, next_page_id>>
    ELSE LET v == PickVictimFrame
         IN  IF v.frame = NoFrame
               THEN /\ last' = Result("NewPage", INVALID_PAGE_ID, FALSE, NoFrame, {})
                    /\ UNCHANGED <<bpm, disk, next_page_id>>
               ELSE LET page_id == AllocatePage
                    IN  /\ next_page_id' = next_page_id + 1
                        /\ free_list_' = v.free
                        /\ frame_list_' = v.r.list
                        /\ iter_map_' = v.r.map
                        /\ page_table_' = MapPut(v.pt, page_id, v.frame)
                        /\ page_id_' = [page_id_ EXCEPT ![v.frame] = page_id]
                        /\ pin_count_' = [pin_count_ EXCEPT ![v.frame] = 1]
                        /\ is_dirty_' = [is_dirty_ EXCEPT ![v.frame] = FALSE]
                        /\ data_' = ResetMemory(data_, v.frame)
                        /\ disk' = v.disk
                        /\ last' = Result("NewPage", page_id, TRUE, v.frame,
                                          v.calls \cup {<<"AllocatePage", page_id>>})

\* DeletePageImpl without the pin-count test of step 2.
DeletePageImpl_IgnoresPin(page_id) ==
  IF page_id \notin DOMAIN page_table_
    THEN /\ last' = Result("DeletePage", page_id, FALSE, NoFrame, {})
         /\ UNCHANGED <<bpm, disk, next_page_id>>
    ELSE LET f == page_table_[page_id]
         IN  /\ free_list_' = Append(free_list_, f)
             /\ page_table_' = MapErase(page_table_, page_id)
             /\ data_' = ResetMemory(data_, f)
             /\ last' = Result("DeletePage", page_id, TRUE, f,
                               {<<"DeallocatePage", page_id>>})
             /\ UNCHANGED <<page_id_, pin_count_, is_dirty_, frame_list_,
                            iter_map_, disk, next_page_id>>

DeletePageImpl(page_id) ==
  IF page_id \notin DOMAIN page_table_
    THEN /\ last' = Result("DeletePage", page_id, FALSE, NoFrame, {})
         /\ UNCHANGED <<bpm, disk, next_page_id>>
    ELSE LET f == page_table_[page_id]
         IN  IF pin_count_[f] > 0
               THEN /\ last' = Result("DeletePage", page_id, FALSE, f, {})
                    /\ UNCHANGED <<bpm, disk, next_page_id>>
               ELSE /\ free_list_' = Append(free_list_, f)
                    /\ page_table_' = MapErase(page_table_, page_id)
                    /\ data_' = ResetMemory(data_, f)
                    /\ last' = Result("DeletePage", page_id, TRUE, f,
                                      {<<"DeallocatePage", page_id>>})
                    /\ UNCHANGED <<page_id_, pin_count_, is_dirty_, frame_list_,
                                   iter_map_, disk, next_page_id>>

FlushAllPagesImpl ==
  /\ last' = Result("FlushAll", INVALID_PAGE_ID, TRUE, NoFrame, {})
  /\ UNCHANGED <<bpm, disk, next_page_id>>

\* ------------------------------------------------------------- actions
Allocated == 0 .. (next_page_id - 1)

\* Everything as its constructor leaves it, no call made, no thread started.
Fresh ==
  /\ page_id_ = [f \in Frames |-> INVALID_PAGE_ID]
  /\ pin_count_ = [f \in Frames |-> 0]
  /\ is_dirty_ = [f \in Frames |-> FALSE]
  /\ data_ = [f \in Frames |-> 0]
  /\ page_table_ = [p \in {} |-> 0]
  /\ free_list_ = [i \in 1 .. PoolSize |-> i - 1]
  /\ frame_list_ = <<>>
  /\ iter_map_ = {}
  /\ disk = [p \in PageIds |-> 0]
  /\ next_page_id = 0
  /\ held = [p \in PageIds |-> 0]
  /\ rt = Idle
  /\ last = Result("init", INVALID_PAGE_ID, TRUE, NoFrame, {})
  /\ ref_map_ = <<>>
  /\ clock_hand_ = NoFrame
  /\ order = <<>>
  /\ hist = <<>>
  /\ out = [op |-> "init", frame |-> NoFrame, ok |-> TRUE, size |-> 0, scan |-> <<>>,
            done |-> TRUE]
  /\ pc = [t \in Threads |-> "idle"]
  /\ bop = [t \in Threads |-> "none"]
  /\ rop = [t \in Threads |-> "none"]
  /\ latch_ = 0
  /\ lock_ = 0

\* The buffer pool is built over an LRUReplacer.
Init ==
  /\ Fresh
  /\ kind = "lru"
  /\ rec = FALSE

RECURSIVE SumHeld(_)
SumHeld(S) ==
  IF S = {} THEN 0
  ELSE LET p == CHOOSE q \in S : TRUE IN held[p] + SumHeld(S \ {p})

\* Callers may take one more page.
MayHold == SumHeld(PageIds) < MaxHeld

\* A page handed out (a non-null return) is one more hold of that page.
HandOut(p) == IF last'.ok THEN [held EXCEPT ![p] = @ + 1] ELSE held

\* pin_count_ of the frame of page p can still be followed one step down.
AboveFloor(p) ==
  p \in DOMAIN page_table_ => pin_count_[page_table_[p]] > -MaxUnderflow

\* ---- cooperating callers: a page is unpinned only by a caller that was handed it
Fetch ==
  \E p \in Allocated :
    /\ FetchPageImpl(p)
    /\ last'.ok => MayHold
    /\ held' = HandOut(p)
    /\ rt' = TrackFetch(p, last'.ok)
    /\ UNCHANGED <<solo, thr>>

Unpin ==
  \E p \in Allocated, d \in BOOLEAN :
    /\ held[p] > 0 \/ p \notin DOMAIN page_table_
    /\ AboveFloor(p)
    /\ UnpinPageImpl(p, d)
    /\ held' = [held EXCEPT ![p] = IF @ > 0 THEN @ - 1 ELSE 0]
    /\ rt' = TrackUnpin(p, d)
    /\ UNCHANGED <<solo, thr>>

Flush ==
  \E p \in Allocated :
    /\ FlushPageImpl(p)
    /\ rt' = TrackOther(p)
    /\ UNCHANGED held
    /\ UNCHANGED <<solo, thr>>

FlushAll ==
  /\ FlushAllPagesImpl
  /\ rt' = TrackAll
  /\ UNCHANGED held
  /\ UNCHANGED <<solo, thr>>

NewPage ==
  /\ next_page_id < NumPages
  /\ NewPageImpl
  /\ last'.ok => MayHold
  /\ held' = HandOut(next_page_id)
  /\ rt' = TrackOther(INVALID_PAGE_ID)
  /\ UNCHANGED <<solo, thr>>

DeletePage ==
  \E p \in Allocated :
    /\ DeletePageImpl(p)
    /\ rt' = TrackOther(p)
    /\ UNCHANGED held
    /\ UNCHANGED <<solo, thr>>

Next ==
  \/ Fetch
  \/ Unpin
  \/ Flush
  \/ FlushAll
  \/ NewPage
  \/ DeletePage

Spec == Init /\ [][Next]_vars

\* ---- the same callers, one of which does the round trip NewPage, write, Unpin, Fetch
NewPageTracked ==
  /\ next_page_id < NumPages
  /\ MayHold
  /\ rt.phase = "idle"
  /\ NewPageImpl
  /\ last'.ok
  /\ held' = HandOut(next_page_id)
  /\ rt' = [phase |-> "new", page |-> next_page_id, B |-> 0]
  /\ UNCHANGED <<solo, thr>>

\* The caller that was just handed rt.page writes bytes b into the frame it was given.
WriteTracked ==
  \E b \in Payloads \ {0} :
    /\ rt.phase = "new"
    /\ rt.page \in DOMAIN page_table_
    /\ data_' = [data_ EXCEPT ![page_table_[rt.page]] = b]
    /\ rt' = TrackWrite(rt.page, b)
    /\ last' = Result("Write", rt.page, TRUE, page_table_[rt.page], {})
    /\ UNCHANGED <<page_id_, pin_count_, is_dirty_, page_table_, free_list_,
                   frame_list_, iter_map_, disk, next_page_id, held>>
    /\ UNCHANGED <<solo, thr>>

NextRT ==
  \/ Next
  \/ NewPageTracked
  \/ WriteTracked

SpecRT == Init /\ [][NextRT]_vars

\* ---- arbitrary callers: any operation on any allocated page, holds not counted
AnyFetch ==
  \E p \in Allocated :
    /\ FetchPageImpl(p)
    /\ UNCHANGED <<held, rt>>
    /\ UNCHANGED <<solo, thr>>

AnyUnpin ==
  \E p \in Allocated, d \in BOOLEAN :
    /\ AboveFloor(p)
    /\ UnpinPageImpl(p, d)
    /\ UNCHANGED <<held, rt>>
    /\ UNCHANGED <<solo, thr>>

AnyNewPage ==
  /\ next_page_id < NumPages
  /\ NewPageImpl
  /\ UNCHANGED <<held, rt>>
  /\ UNCHANGED <<solo, thr>>

\* A caller writes payload b through the frame of a resident page.
AnyWrite ==
  \E p \in DOMAIN page_table_, b \in Payloads :
    /\ data_' = [data_ EXCEPT ![page_table_[p]] = b]
    /\ last' = Result("Write", p, TRUE, page_table_[p], {})
    /\ UNCHANGED <<page_id_, pin_count_, is_dirty_, page_table_, free_list_,
                   frame_list_, iter_map_, disk, next_page_id, held, rt>>
    /\ UNCHANGED <<solo, thr>>

NextAny ==
  \/ AnyFetch
  \/ AnyUnpin
  \/ Flush
  \/ FlushAll
  \/ AnyNewPage
  \/ DeletePage
  \/ AnyWrite

SpecAny == Init /\ [][NextAny]_vars

\* ---- a replacer driven on its own: Unpin, Pin, Victim and Size in any order.
\* A run either writes its first MaxOps calls down and ends there, or writes nothing
\* down and goes on without end.
InitEither ==
  /\ Fresh
  /\ kind \in {"lru", "clock"}
  /\ rec \in BOOLEAN

SetLRU(r) ==
  /\ frame_list_' = r.list
  /\ iter_map_' = r.map
  /\ UNCHANGED <<ref_map_, clock_hand_>>

SetClock(c) ==
  /\ frame_list_' = c.list
  /\ ref_map_' = c.ref
  /\ iter_map_' = c.map
  /\ clock_hand_' = c.hand

\* The call is written down with what it returned and the Size it left.
Returned(op, f, ok, scan, done) ==
  /\ out' = [op |-> op, frame |-> f, ok |-> ok, size |-> Len(frame_list_'),
             scan |-> scan, done |-> done]
  /\ hist' = IF rec
                THEN Append(hist, [op |-> op, frame |-> f, ok |-> ok,
                                   size |-> Len(frame_list_')])
                ELSE hist

MayCall == rec => Len(hist) < MaxOps

ReplacerUnpin ==
  \E f \in Ids :
    /\ MayCall
    /\ IF kind = "lru" THEN SetLRU(LRUUnpin(Replacer, f))
                       ELSE SetClock(ClockUnpin(Clock, f))
    /\ order' = IF f \in Range(order) THEN order ELSE Append(order, f)
    /\ Returned("Unpin", f, TRUE, <<>>, TRUE)
    /\ UNCHANGED <<pool, thr, kind, rec>>

ReplacerPin ==
  \E f \in Ids :
    /\ MayCall
    /\ IF kind = "lru" THEN SetLRU(LRUPin(Replacer, f))
                       ELSE SetClock(ClockPin(Clock, f))
    /\ order' = Remove(order, f)
    /\ Returned("Pin", f, TRUE, <<>>, TRUE)
    /\ UNCHANGED <<pool, thr, kind, rec>>

ReplacerVictim ==
  /\ MayCall
  /\ IF kind = "lru"
       THEN LET v == LRUVictim(Replacer)
            IN  /\ SetLRU(v.r)
                /\ order' = Remove(order, v.frame)
                /\ Returned("Victim", v.frame, v.ok, <<>>, TRUE)
       ELSE LET v == ClockVictim(Clock)
            IN  /\ SetClock(v.c)
                /\ order' = Remove(order, v.frame)
                /\ Returned("Victim", v.frame, v.ok, v.scan, v.done)
  /\ UNCHANGED <<pool, thr, kind, rec>>

ReplacerSize ==
  /\ MayCall
  /\ UNCHANGED <<frame_list_, iter_map_, ref_map_, clock_hand_, order>>
  /\ Returned("Size", NoFrame, TRUE, <<>>, TRUE)
  /\ UNCHANGED <<pool, thr, kind, rec>>

NextSolo ==
  \/ ReplacerUnpin
  \/ ReplacerPin
  \/ ReplacerVictim
  \/ ReplacerSize

SpecSolo == InitEither /\ [][NextSolo]_vars

\* ---- concurrent callers: each operation taken one lock_guard, call and return at a
\* time.  pc is "idle", "enter" (operation called, latch_ not yet taken), "body" (in
\* the pool, before any replacer call), "call" (replacer operation called, lock_ not
\* yet taken), "rbody" (in the replacer), "helper" (in PinThread under Victim),
\* "rtail" (back in Victim), "tail" (back in the pool).
PoolOps == {"Fetch", "Unpin", "Flush", "NewPage", "DeletePage", "FlushAll"}

ReplacerOps == {"Victim", "Pin", "Unpin", "Size"}

\* The replacer operations a pool operation may call while it holds latch_.
ReplacerCalls(op) ==
  CASE op = "Fetch"   -> {"Pin", "Victim"}
    [] op = "Unpin"   -> {"Unpin"}
    [] op = "NewPage" -> {"Victim"}
    [] OTHER          -> {}

\* FlushAllPagesImpl is the one operation without a lock_guard: its body is empty.
TakesLatch(op) == op # "FlushAll"

InitThreads ==
  /\ Fresh
  /\ kind \in {"lru", "clock"}
  /\ rec = FALSE

At(t, where) == pc' = [pc EXCEPT ![t] = where]

CallPool(t) ==
  /\ pc[t] = "idle"
  /\ \E op \in PoolOps : bop' = [bop EXCEPT ![t] = op]
  /\ At(t, "enter")
  /\ UNCHANGED <<rop, latch_, lock_>>

\* lock_guard<mutex> guard(latch_), or straight through the empty FlushAllPagesImpl.
Enter(t) ==
  /\ pc[t] = "enter"
  /\ IF TakesLatch(bop[t])
       THEN /\ latch_ = 0
            /\ latch_' = t
            /\ At(t, "body")
            /\ UNCHANGED bop
       ELSE /\ At(t, "idle")
            /\ bop' = [bop EXCEPT ![t] = "none"]
            /\ UNCHANGED latch_
  /\ UNCHANGED <<rop, lock_>>

PoolCalls(t) ==
  /\ pc[t] = "body"
  /\ \E r \in ReplacerCalls(bop[t]) : rop' = [rop EXCEPT ![t] = r]
  /\ At(t, "call")
  /\ UNCHANGED <<bop, latch_, lock_>>

\* return: the guard's destructor unlocks latch_.
PoolReturns(t) ==
  /\ pc[t] \in {"body", "tail"}
  /\ latch_' = 0
  /\ At(t, "idle")
  /\ bop' = [bop EXCEPT ![t] = "none"]
  /\ UNCHANGED <<rop, lock_>>

\* A caller uses the replacer directly.
CallReplacer(t) ==
  /\ pc[t] = "idle"
  /\ \E r \in ReplacerOps : rop' = [rop EXCEPT ![t] = r]
  /\ At(t, "call")
  /\ UNCHANGED <<bop, latch_, lock_>>

\* lock_guard<mutex> guard(lock_)
Acquire(t) ==
  /\ pc[t] = "call"
  /\ lock_ = 0
  /\ lock_' = t
  /\ At(t, "rbody")
  /\ UNCHANGED <<bop, rop, latch_>>

\* ClockReplacer::Victim calling Pin, which locks lock_ again, in place of PinThread.
VictimCallsPin(t) ==
  /\ pc[t] = "rbody"
  /\ rop[t] = "Victim"
  /\ kind = "clock"
  /\ At(t, "call")
  /\ UNCHANGED <<bop, rop, latch_, lock_>>

\* ClockReplacer::Victim removes its victim through PinThread, which takes no lock.
VictimCallsPinThread(t) ==
  /\ pc[t] = "rbody"
  /\ rop[t] = "Victim"
  /\ kind = "clock"
  /\ At(t, "helper")
  /\ UNCHANGED <<bop, rop, latch_, lock_>>

PinThreadReturns(t) ==
  /\ pc[t] = "helper"
  /\ At(t, "rtail")
  /\ UNCHANGED <<bop, rop, latch_, lock_>>

\* return: the guard's destructor unlocks lock_; control is back in the caller.
ReplacerReturns(t) ==
  /\ pc[t] \in {"rbody", "rtail"}
  /\ lock_' = 0
  /\ At(t, IF bop[t] = "none" THEN "idle" ELSE "tail")
  /\ rop' = [rop EXCEPT ![t] = "none"]
  /\ UNCHANGED <<bop, latch_>>

\* A step of an operation that thread t has started.
Step(t) ==
  \/ Enter(t)
  \/ PoolCalls(t)
  \/ PoolReturns(t)
  \/ Acquire(t)
  \/ VictimCallsPinThread(t)
  \/ PinThreadReturns(t)
  \/ ReplacerReturns(t)

Quiet == UNCHANGED <<pool, frame_list_, iter_map_, solo>>

NextThreads ==
  \/ \E t \in Threads : CallPool(t) /\ Quiet
  \/ \E t \in Threads : Enter(t) /\ Quiet
  \/ \E t \in Threads : PoolCalls(t) /\ Quiet
  \/ \E t \in Threads : PoolReturns(t) /\ Quiet
  \/ \E t \in Threads : CallReplacer(t) /\ Quiet
  \/ \E t \in Threads : Acquire(t) /\ Quiet
  \/ \E t \in Threads : VictimCallsPinThread(t) /\ Quiet
  \/ \E t \in Threads : PinThreadReturns(t) /\ Quiet
  \/ \E t \in Threads : ReplacerReturns(t) /\ Quiet

\* Every thread in an operation keeps being scheduled, and a thread that finds a
\* mutex free again and again gets it.
Fairness ==
  \A t \in Threads :
    /\ WF_vars(Step(t) /\ Quiet)
    /\ SF_vars(Enter(t) /\ Quiet)
    /\ SF_vars(Acquire(t) /\ Quiet)

SpecThreads == InitThreads /\ [][NextThreads]_vars /\ Fairness


\* ------------------------------------------------------------- properties
Evictable == iter_map_

NoFrameAvailable == free_list_ = <<>> /\ \A f \in Frames : pin_count_[f] > 0

\* C1: a page handed out more often than it was unpinned is not evicted: it stays
\* in the page table, at the same frame, across every operation.
C1_HeldPageStaysResident ==
  [][\A p \in DOMAIN page_table_ :
       held[p] > 0 => /\ p \in DOMAIN page_table_'
                      /\ page_table_'[p] = page_table_[p]]_vars

\* C2: between operations, a frame is in the replacer's evictable set exactly when
\* it is resident and its pin count is zero.
C2_EvictableIffResidentUnpinned ==
  \A f \in Frames : f \in Evictable <=> (f \in Resident /\ pin_count_[f] = 0)

\* C3: a Fetch that returns a frame returns one whose pin count is at least 1.
C3_FetchReturnsPinned ==
  (last.op = "Fetch" /\ last.ok) => pin_count_[last.frame] >= 1

\* C4: the free list and the resident frames partition the frame ids: they are
\* disjoint, cover 0 .. PoolSize-1, the free list repeats no frame, no two pages
\* share a frame, and |free_list| + |page_table| = pool_size.
C4_FreeAndResidentPartition ==
  /\ Range(free_list_) \cap Resident = {}
  /\ Range(free_list_) \cup Resident = Frames
  /\ Cardinality(Range(free_list_)) = Len(free_list_)
  /\ \A p, q \in DOMAIN page_table_ : page_table_[p] = page_table_[q] => p = q
  /\ Len(free_list_) + Cardinality(DOMAIN page_table_) = PoolSize

\* C4 witness: with the free list empty, a Fetch miss took its frame from the
\* replacer, wrote the dirty victim back and installed the fetched page there.
C4_Witness ==
  /\ last.op = "Fetch"
  /\ last.ok
  /\ \E q \in PageIds \ {last.page} : <<"WritePage", q>> \in last.calls
  /\ free_list_ = <<>>
  /\ page_table_[last.page] = last.frame

\* C5: every page-table entry (p, f) has frames[f].page_id = p, and every frame on
\* the free list carries the invalid page id.
C5_PageIdsAgree ==
  /\ \A p \in DOMAIN page_table_ : page_id_[page_table_[p]] = p
  /\ \A f \in Range(free_list_) : page_id_[f] = INVALID_PAGE_ID

\* C6: after NewPage returned p, the caller wrote B and called Unpin(p, dirty), a
\* later Fetch(p) that returns a frame returns one whose payload is B, whatever the
\* other callers did to other pages in between.
C6_RoundTrip ==
  rt.phase = "fetched" => data_[last.frame] = rt.B

\* C7: an operation puts a dirty frame on the free list only if it wrote the
\* frame's payload to the page store.
C7_DirtyWrittenBeforeFreed ==
  [][\A f \in Frames :
       (f \notin Range(free_list_) /\ f \in Range(free_list_') /\ is_dirty_[f])
         => <<"WritePage", page_id_[f]>> \in last'.calls]_vars

\* C8: DeletePage of a page that is not in the page table returns true and leaves
\* the buffer pool as it was.
C8_DeleteAbsentReturnsTrue ==
  [][\A p \in PageIds :
       (last'.op = "DeletePage" /\ last'.page = p /\ p \notin DOMAIN page_table_)
         => (last'.ok /\ UNCHANGED <<bpm, disk, next_page_id>>)]_vars

\* C9: DeletePage of a resident page with pin_count > 0 returns false, changes no
\* buffer-pool state and does not ask the page store to deallocate the page.
C9_DeletePinnedRefused ==
  [][\A p \in PageIds :
       (/\ last'.op = "DeletePage"
        /\ last'.page = p
        /\ p \in DOMAIN page_table_
        /\ pin_count_[page_table_[p]] > 0)
         => (/\ ~last'.ok
             /\ UNCHANGED <<bpm, disk, next_page_id>>
             /\ <<"DeallocatePage", p>> \notin last'.calls)]_vars

\* C9 witness: DeletePage was just refused for a resident, pinned page whose frame
\* holds written bytes.
C9_Witness ==
  /\ last.op = "DeletePage"
  /\ ~last.ok
  /\ last.page \in DOMAIN page_table_
  /\ pin_count_[page_table_[last.page]] > 0
  /\ data_[page_table_[last.page]] # 0

\* C10: NewPage, and Fetch of a page that is not resident, return null exactly when
\* the free list is empty and every frame is pinned; a null return changes nothing
\* and allocates no page id.
C10_NullIffNoFrameAvailable ==
  [][((last'.op = "NewPage" \/ (last'.op = "Fetch" /\ last'.page \notin DOMAIN page_table_))
       /\ last' # last)
       => /\ ~last'.ok <=> NoFrameAvailable
          /\ ~last'.ok => UNCHANGED <<bpm, disk, next_page_id>>]_vars

\* C11: with callers that unpin a page no more often than they were handed it,
\* no frame's pin count is ever negative.
C11_PinCountNonNegative ==
  \A f \in Frames : pin_count_[f] >= 0

\* C15: FlushAll writes the payload of every resident page to the page store and
\* leaves every resident frame clean, changing no pin count, page table, free list
\* or evictable set.
C15_FlushAllWritesEveryPage ==
  [][last'.op = "FlushAll"
       => /\ \A p \in DOMAIN page_table_ :
               /\ <<"WritePage", p>> \in last'.calls
               /\ disk'[p] = data_[page_table_[p]]
               /\ ~is_dirty_'[page_table_[p]]
          /\ UNCHANGED <<pin_count_, page_table_, free_list_, frame_list_,
                         iter_map_>>]_vars

\* C17: Fetch of a page resident at frame f adds exactly one to pin_count_[f], takes
\* f out of the evictable set, reads nothing from the page store and leaves the page
\* table, the free list, is_dirty_ and the payload alone.
C17_FetchHitPinsOnce ==
  [][\A p \in PageIds :
       (last'.op = "Fetch" /\ last'.page = p /\ p \in DOMAIN page_table_)
         => /\ last'.ok
            /\ last'.frame = page_table_[p]
            /\ pin_count_' = [pin_count_ EXCEPT ![page_table_[p]] = @ + 1]
            /\ page_table_[p] \notin iter_map_'
            /\ <<"ReadPage", p>> \notin last'.calls
            /\ UNCHANGED <<page_table_, free_list_, is_dirty_, data_, disk>>]_vars

\* A NewPage, or a Fetch of a page that is not resident, has just been made.
NeedsFrame ==
  \/ last'.op = "NewPage"
  \/ last'.op = "Fetch" /\ last'.page \notin DOMAIN page_table_

\* C19: with a non-empty free list, NewPage and a Fetch miss take the front of the
\* free list, remove no page-table entry, issue no WritePage and leave the replacer
\* alone; with an empty free list a frame comes from the replacer, and a dirty
\* victim's payload is in the page store before the frame is given its new page.
C19_FreeListFirst ==
  [][NeedsFrame
       => /\ free_list_ # <<>>
               => /\ last'.ok
                  /\ last'.frame = Head(free_list_)
                  /\ free_list_' = Tail(free_list_)
                  /\ \A p \in DOMAIN page_table_ :
                       p \in DOMAIN page_table_' /\ page_table_'[p] = page_table_[p]
                  /\ \A c \in last'.calls : c[1] # "WritePage"
                  /\ UNCHANGED <<frame_list_, iter_map_>>
          /\ (free_list_ = <<>> /\ last'.ok)
               => /\ last'.frame \in iter_map_
                  /\ last'.frame \notin iter_map_'
                  /\ is_dirty_[last'.frame]
                       => /\ <<"WritePage", page_id_[last'.frame]>> \in last'.calls
                          /\ disk'[page_id_[last'.frame]] = data_[last'.frame]]_vars

\* C19 witness: NewPage has just taken a frame off the free list although a dirty,
\* resident page was evictable; that page is still resident and nothing was written.
C19_Witness ==
  /\ last.op = "NewPage"
  /\ last.ok
  /\ last.calls = {<<"AllocatePage", last.page>>}
  /\ last.frame \notin iter_map_
  /\ Cardinality(DOMAIN page_table_) = PoolSize
  /\ \E p \in DOMAIN page_table_ :
       /\ p # last.page
       /\ page_table_[p] \in iter_map_
       /\ is_dirty_[page_table_[p]]

\* C20: Flush of a resident page writes the frame's payload under that page id,
\* clears is_dirty_, returns true and changes nothing else; Flush and Unpin of a page
\* that is not resident return false and change nothing; Unpin never clears a dirty
\* bit.
C20_FlushAndStickyDirty ==
  [][\A p \in PageIds :
       /\ (last'.op = "Flush" /\ last'.page = p /\ p \in DOMAIN page_table_)
            => /\ last'.ok
               /\ disk' = [disk EXCEPT ![p] = data_[page_table_[p]]]
               /\ is_dirty_' = [is_dirty_ EXCEPT ![page_table_[p]] = FALSE]
               /\ UNCHANGED <<page_id_, pin_count_, data_, page_table_, free_list_,
                              frame_list_, iter_map_, next_page_id>>
       /\ (last'.op \in {"Flush", "Unpin"} /\ last'.page = p
             /\ p \notin DOMAIN page_table_)
            => /\ ~last'.ok
               /\ UNCHANGED <<bpm, disk, next_page_id>>
       /\ (last'.op = "Unpin" /\ last'.page = p /\ p \in DOMAIN page_table_
             /\ is_dirty_[page_table_[p]])
            => is_dirty_'[page_table_[p]]]_vars

\* C20 witness: Flush has just written the non-zero payload of a pinned, resident
\* page and left its frame clean.
C20_Witness ==
  /\ last.op = "Flush"
  /\ last.ok
  /\ last.page \in DOMAIN page_table_
  /\ data_[page_table_[last.page]] # 0
  /\ disk[last.page] = data_[page_table_[last.page]]
  /\ pin_count_[page_table_[last.page]] > 0
  /\ ~is_dirty_[page_table_[last.page]]

\* The first n calls were Unpins of n different frame ids and every call after
\* them was a Victim.
UnpinsThenVictims(n) ==
  /\ n <= Len(hist)
  /\ \A i \in 1 .. n : hist[i].op = "Unpin"
  /\ \A i, j \in 1 .. n : i # j => hist[i].frame # hist[j].frame
  /\ \A i \in (n + 1) .. Len(hist) : hist[i].op = "Victim"

\* C12: the LRU replacer's Victim returns the evictable frame inserted longest ago,
\* an Unpin of a frame already present moves nothing, and after Unpins of k different
\* frames into an empty replacer the next Victims return them in that order.
C12_LRUOldestFirst ==
  /\ [](kind = "lru"
          => \A n \in 1 .. MaxOps :
               (UnpinsThenVictims(n) /\ Len(hist) <= 2 * n)
                 => \A i \in (n + 1) .. Len(hist) :
                      hist[i].ok /\ hist[i].frame = hist[i - n].frame)
  /\ [][kind = "lru"
          => /\ (out'.op = "Victim" /\ order # <<>>)
                  => out'.ok /\ out'.frame = Head(order)
             /\ (out'.op = "Unpin" /\ out'.frame \in iter_map_)
                  => frame_list_' = frame_list_ /\ iter_map_' = iter_map_]_vars

\* C12 witness: Unpin 0, 1, Unpin 0 again, then two Victims that returned 0 and 1.
C12_Witness ==
  /\ kind = "lru"
  /\ Len(hist) = 5
  /\ [i \in 1 .. 5 |-> <<hist[i].op, hist[i].frame>>]
       = <<<<"Unpin", 0>>, <<"Unpin", 1>>, <<"Unpin", 0>>, <<"Victim", 0>>,
           <<"Victim", 1>>>>
  /\ frame_list_ = <<>>

\* The list as the hand goes round it: from the entry the hand is at (the head when
\* the hand is at end()) to the end, then from the head.
Ring ==
  LET k == IF clock_hand_ = NoFrame THEN 1 ELSE Index(frame_list_, clock_hand_)
  IN  SubSeq(frame_list_, k, Len(frame_list_)) \o SubSeq(frame_list_, 1, k - 1)

\* Position in the ring of the entry second-chance evicts: the first whose bit is
\* clear, or the first of all when every bit is set.
Evicted ==
  LET clear == {i \in DOMAIN Ring : ~ref_map_[Ring[i]]}
  IN  IF clear = {} THEN 1 ELSE CHOOSE i \in clear : \A j \in clear : i <= j

\* The entries the hand passes before it evicts.
Passed ==
  IF \A i \in DOMAIN Ring : ref_map_[Ring[i]]
    THEN Range(Ring)
    ELSE {Ring[i] : i \in 1 .. (Evicted - 1)}

\* C13: CLOCK Victim on a non-empty list evicts the first entry from the hand, in
\* ring order, whose bit is clear once the passed entries' bits are cleared; passed
\* entries stay with their bit cleared, the others keep theirs, the victim is removed
\* and the hand ends on the victim's successor, the head after the last entry.
C13_ClockSecondChance ==
  [][(kind = "clock" /\ out'.op = "Victim" /\ frame_list_ # <<>>)
       => /\ out'.ok
          /\ out'.frame = Ring[Evicted]
          /\ frame_list_' = Remove(frame_list_, Ring[Evicted])
          /\ DOMAIN ref_map_' = Range(frame_list_')
          /\ \A f \in Range(frame_list_') :
               ref_map_'[f] = (f \notin Passed /\ ref_map_[f])
          /\ frame_list_' # <<>>
               => Ring'[1] = (IF Evicted = Len(Ring) THEN Ring[1] ELSE Ring[Evicted + 1])]_vars

\* C13 witness: a Victim has passed an entry whose bit was set, left it in the list
\* with the bit cleared, taken a later entry and left the hand on that entry's
\* successor, which is not the head.
C13_Witness ==
  /\ kind = "clock"
  /\ out.op = "Victim"
  /\ out.ok
  /\ Len(out.scan) = 2
  /\ out.scan[1] \in Range(frame_list_)
  /\ ~ref_map_[out.scan[1]]
  /\ out.frame = out.scan[2]
  /\ clock_hand_ \in Range(frame_list_) \ {Head(frame_list_), out.scan[1]}
  /\ ref_map_[clock_hand_]

\* C14: Victim of either replacer on a non-empty evictable set returns true with a
\* member of the set, removes exactly that frame and lowers Size by one; on an empty
\* set it returns false and changes nothing; k Unpins of different frames into an
\* empty replacer followed by k Victims leave Size 0.
C14_VictimTakesOneMember ==
  /\ [](\A n \in 1 .. MaxOps :
          (UnpinsThenVictims(n) /\ Len(hist) = 2 * n)
            => hist[2 * n].size = 0 /\ frame_list_ = <<>> /\ iter_map_ = {})
  /\ [][(out'.op = "Victim")
          => IF frame_list_ # <<>>
               THEN /\ out'.ok
                    /\ out'.frame \in iter_map_
                    /\ out'.frame \in Range(frame_list_)
                    /\ iter_map_' = iter_map_ \ {out'.frame}
                    /\ frame_list_' = Remove(frame_list_, out'.frame)
                    /\ out'.size = Len(frame_list_) - 1
               ELSE /\ ~out'.ok
                    /\ out'.size = 0
                    /\ UNCHANGED <<frame_list_, iter_map_, ref_map_, clock_hand_>>]_vars

\* C14 witness: two Unpins of different frames into the empty CLOCK replacer, then
\* two Victims that returned those frames, the second leaving Size 0.
C14_Witness ==
  /\ kind = "clock"
  /\ UnpinsThenVictims(2)
  /\ Len(hist) = 4
  /\ hist[3].ok /\ hist[4].ok
  /\ {hist[3].frame, hist[4].frame} = {hist[1].frame, hist[2].frame}
  /\ hist[3].size = 1
  /\ out.size = 0

\* How often frame id f occurs in the sequence s.
Count(s, f) == Cardinality({i \in DOMAIN s : s[i] = f})

\* C18: CLOCK Victim always returns: on a non-empty list after looking at each entry
\* at most twice, on an empty list at once with failure.
C18_ClockVictimTerminates ==
  [][(kind = "clock" /\ out'.op = "Victim")
       => /\ out'.done
          /\ frame_list_ = <<>> => out'.scan = <<>> /\ ~out'.ok
          /\ frame_list_ # <<>>
               => /\ out'.ok
                  /\ \A f \in Ids : Count(out'.scan, f) <= 2
                  /\ Range(out'.scan) \subseteq Range(frame_list_)
                  /\ Len(out'.scan) <= 2 * Len(frame_list_)]_vars

\* C18 witness: a Victim on three entries with every bit set went once round the
\* ring and took the entry it started at on the second look.
C18_Witness ==
  /\ kind = "clock"
  /\ out.op = "Victim"
  /\ out.ok
  /\ out.done
  /\ Len(out.scan) = 4
  /\ Count(out.scan, out.frame) = 2
  /\ Len(frame_list_) = 2

\* Thread t is inside a pool operation, between its lock_guard and its return.
InPool(t) ==
  \/ pc[t] \in {"body", "tail"}
  \/ bop[t] # "none" /\ pc[t] \in {"call", "rbody", "helper", "rtail"}

\* Thread t is inside a replacer operation, between its lock_guard and its return.
InReplacer(t) == pc[t] \in {"rbody", "helper", "rtail"}

=============================================================================
